---------------------------- MODULE Spec2Model ----------------------------
(***************************************************************************)
(* The five scripts of datafun-03-analytics as one state machine.  A run   *)
(* starts one script (script) and steps through it (pc):                   *)
(*   csv    process_csv_file   -> get_top_10_states   (count, top 10)      *)
(*   excel  process_excel_file -> find_highest_price_nsn (maximum)         *)
(*   json   process_json_file  -> get_top_10_states   (pandas sum, top 10) *)
(*   text   process_text_file  -> count_top_words     (word frequency)     *)
(*   fetch  fetch_excel_file   -> write_excel_file                         *)
(* Input files are read as the code reads them: the CSV rows and the sheet *)
(* rows one per loop iteration, the JSON document and the text file whole. *)
(***************************************************************************)
EXTENDS Integers, Sequences, FiniteSets, TLC

VARIABLES
  script,   \* which script this run executes
  pc,       \* position in the script
  inp,      \* the input read so far (file content, call parameters)
  st,       \* the locals of the analysis function
  result,   \* the value the analysis function returned
  log,      \* the logger calls of the run, in order
  out       \* the report / the saved file

vars == <<script, pc, inp, st, result, log, out>>

\* the output file: not there, or there with what was written to it
Absent == [written |-> FALSE, content |-> <<>>]

File(content) == [written |-> TRUE, content |-> content]

RemoveAt(s, i) == SubSeq(s, 1, i - 1) \o SubSeq(s, i + 1, Len(s))
None == "<None>"
Unset == <<>>

Min(a, b) == IF a < b THEN a ELSE b

Range(s) == {s[i] : i \in 1..Len(s)}

Front(s) == SubSeq(s, 1, Len(s) - 1)

Last(s) == s[Len(s)]

Err(msg) == [level |-> "error", msg |-> msg]

Info(msg) == [level |-> "info", msg |-> msg]

(***************************************************************************)
(* collections.Counter / dict: a sequence of <<key, value>> items in       *)
(* insertion order, keys distinct.                                         *)
(***************************************************************************)
Keys(c) == {c[i][1] : i \in 1..Len(c)}

Pos(c, k) == CHOOSE i \in 1..Len(c) : c[i][1] = k

Get(c, k) == c[Pos(c, k)][2]

\* c[k] += 1 : an existing key keeps its place, a new key goes last
CounterIncr(c, k) ==
  IF k \in Keys(c) THEN [c EXCEPT ![Pos(c, k)][2] = @ + 1]
  ELSE Append(c, <<k, 1>>)

RECURSIVE SumValues(_)
SumValues(c) == IF c = <<>> THEN 0 ELSE SumValues(Front(c)) + Last(c)[2]

\* sorted(items, key=itemgetter(1), reverse=True): stable, so an item goes
\* behind every item already placed whose count is >= its own
InsertDesc(s, x) ==
  LET p == Cardinality({i \in 1..Len(s) : s[i][2] >= x[2]})
  IN  SubSeq(s, 1, p) \o <<x>> \o SubSeq(s, p + 1, Len(s))

RECURSIVE SortedDesc(_)
SortedDesc(items) ==
  IF items = <<>> THEN <<>>
  ELSE InsertDesc(SortedDesc(Front(items)), Last(items))

Reverse(s) == [i \in 1..Len(s) |-> s[Len(s) + 1 - i]]

\* most_common with the later of two equal counts first
MostCommonLastSeenFirst(c, n) == SubSeq(SortedDesc(Reverse(c)), 1, Min(n, Len(c)))

\* Counter.most_common(n) = heapq.nlargest(n, items, key=count)
\*                        = sorted(items, key=count, reverse=True)[:n]
MostCommon(c, n) == SubSeq(SortedDesc(c), 1, Min(n, Len(c)))

(***************************************************************************)
(* Numbers.  A percentage is kept exact, as the fraction num/den; the      *)
(* ':.2f' of the report rounds it to hundredths, half to even.             *)
(***************************************************************************)
Percent(count, total) == [num |-> count * 100, den |-> total]

Format2f(q) ==
  LET n == q.num * 100
      f == n \div q.den
      r == n % q.den
  IN  IF 2 * r < q.den THEN f
      ELSE IF 2 * r > q.den THEN f + 1
      ELSE IF f % 2 = 0 THEN f ELSE f + 1

(***************************************************************************)
(* What opening the report file for writing can meet.                      *)
(***************************************************************************)
FsOutcomes == {"ok", "nofolder", "denied"}

-----------------------------------------------------------------------------
(***************************************************************************)
(* process_csv.py                                                          *)
(***************************************************************************)
MaxCsvRows == 12

TopStates == 10

\* A header cell is its sequence of characters; " " and NBSP are whitespace.
NBSP == "\\xa0"

StateCol == <<"S", "t", "a", "t", "e">>

CityCol == <<"C", "i", "t", "y">>

\* <<>> is the empty file: no header row, fieldnames is None
CsvHeaders ==
  { <<>>,
    <<CityCol, StateCol>>,
    <<CityCol, <<" ">> \o StateCol \o <<NBSP>> >>,
    <<CityCol, <<"S", "t", NBSP, "a", "t", "e", " ">> >>,
    <<CityCol, <<"s", "t", "a", "t", "e">> >>,
    <<CityCol, <<"S", "t", " ", "a", "t", "e">> >> }

IsSpace(p) == p \in {" ", NBSP}

RECURSIVE LStrip(_)
LStrip(s) == IF s # <<>> /\ IsSpace(s[1]) THEN LStrip(Tail(s)) ELSE s

RECURSIVE RStrip(_)
RStrip(s) == IF s # <<>> /\ IsSpace(Last(s)) THEN RStrip(Front(s)) ELSE s

\* str.strip()
Strip(s) == RStrip(LStrip(s))

\* str.replace("\xa0", "")
RECURSIVE RemoveNbsp(_)
RemoveNbsp(s) ==
  IF s = <<>> THEN <<>>
  ELSE IF s[1] = NBSP THEN RemoveNbsp(Tail(s))
  ELSE <<s[1]>> \o RemoveNbsp(Tail(s))

\* col.strip().replace("\xa0", "")
NormalizeCol(col) == RemoveNbsp(Strip(col))

Fieldnames(header) == [i \in 1..Len(header) |-> NormalizeCol(header[i])]

\* The state names of the file, in order of first appearance: nothing in
\* get_top_10_states reads a name beyond its equality and its emptiness.
StateNames ==
  <<"TX", "CA", "GA", "FL", "IL", "MN", "WA", "MO", "AZ", "MI", "OH", "NV", "KS", "NJ">>

\* The State cell of a data row: [short |-> TRUE] when the row is too short to
\* hold it (DictReader's restval None), else its text, a sequence of pieces.
CsvCells(counts) ==
  LET names == {StateNames[k] : k \in 1..(Len(counts) + 1)}
  IN  {[short |-> TRUE, text |-> <<>>]} \cup
      {[short |-> FALSE, text |-> t] :
         t \in {<<" ", n, " ">> : n \in names} \cup {<<n>> : n \in names}
               \cup {<<>>, <<" ", " ">>}}

\* row.get("State", "").strip()
CellState(cell) == Strip(cell.text)

\* get_top_10_states with the total taken over the top 10 only
CsvEntriesTotalOfTop(state_counts) ==
  LET top_10 == MostCommon(state_counts, TopStates)
      total_failures == SumValues(top_10)
  IN  [i \in 1..Len(top_10) |->
         <<top_10[i][1], top_10[i][2], Percent(top_10[i][2], total_failures)>>]

CsvEntries(state_counts) ==
  LET total_failures == SumValues(state_counts)
      top_10 == MostCommon(state_counts, TopStates)
  IN  [i \in 1..Len(top_10) |->
         <<top_10[i][1], top_10[i][2], Percent(top_10[i][2], total_failures)>>]

CsvReport(top_10_states) ==
  <<"Top 10 States with Most Failed Banks:", "=40", "State Count Percentage", "=40">>
  \o [i \in 1..Len(top_10_states) |->
        <<top_10_states[i][1], top_10_states[i][2], Format2f(top_10_states[i][3])>>]

InitCsv ==
  /\ script = "csv"
  /\ pc = "start"
  /\ inp = Unset
  /\ st = Unset
  /\ result = Unset
  /\ log = <<>>
  /\ out = Absent

\* lines 44-53: open the file, read and normalise the header, check "State"
CsvOpen ==
  /\ script = "csv" /\ pc = "start"
  /\ \E exists \in BOOLEAN, header \in CsvHeaders :
       /\ inp' = [exists |-> exists,
                  fieldnames |-> IF exists THEN Fieldnames(header) ELSE <<>>]
       /\ IF ~exists \/ header = <<>>
          THEN /\ log' = Append(log, Err("Error processing CSV file"))
               /\ result' = <<>>
               /\ pc' = "returned"
               /\ st' = [state_counts |-> <<>>, clean |-> <<>>, n |-> 0]
          ELSE IF StateCol \notin Range(Fieldnames(header))
          THEN /\ log' = Append(log, Err("CSV missing 'State' column"))
               /\ result' = <<>>
               /\ pc' = "returned"
               /\ st' = [state_counts |-> <<>>, clean |-> <<>>, n |-> 0]
          ELSE /\ pc' = "rows"
               /\ st' = [state_counts |-> <<>>, clean |-> <<>>, n |-> 0]
               /\ UNCHANGED <<result, log>>
  /\ UNCHANGED <<script, out>>

\* lines 55-58, one iteration; st.clean is the count a run over the same file
\* without its malformed rows would hold
CsvReadRow ==
  /\ script = "csv" /\ pc = "rows"
  /\ st.n < MaxCsvRows
  /\ \E cell \in CsvCells(st.state_counts) :
       IF cell.short
       THEN \* None.strip(): AttributeError, caught at line 75
            /\ log' = Append(log, Err("Error processing CSV file"))
            /\ result' = <<>>
            /\ pc' = "returned"
            /\ st' = [st EXCEPT !.n = @ + 1]
       ELSE /\ st' = IF CellState(cell) # <<>>
                     THEN [st EXCEPT !.n = @ + 1,
                                     !.state_counts = CounterIncr(@, CellState(cell)[1]),
                                     !.clean = CounterIncr(@, CellState(cell)[1])]
                     ELSE [st EXCEPT !.n = @ + 1]
            /\ UNCHANGED <<pc, result, log>>
  /\ UNCHANGED <<script, inp, out>>

\* lines 60-73: the reader is exhausted
CsvRank ==
  /\ script = "csv" /\ pc = "rows"
  /\ IF st.state_counts = <<>>
     THEN /\ log' = Append(log, Err("No state data found in CSV file."))
          /\ result' = <<>>
     ELSE /\ result' = CsvEntries(st.state_counts)
          /\ log' = log
  /\ pc' = "returned"
  /\ UNCHANGED <<script, inp, st, out>>

\* process_csv_file writing no report for an empty result
CsvWriteUnlessEmpty ==
  /\ script = "csv" /\ pc = "returned"
  /\ \E fs \in FsOutcomes :
       IF fs = "ok"
       THEN /\ out' = IF result = <<>> THEN out ELSE File(CsvReport(result))
            /\ log' = Append(log, Info("Processed CSV file"))
            /\ pc' = "done"
       ELSE /\ pc' = "raised"
            /\ UNCHANGED <<out, log>>
  /\ UNCHANGED <<script, inp, st, result>>

\* lines 90-99: no mkdir, no try
CsvWrite ==
  /\ script = "csv" /\ pc = "returned"
  /\ \E fs \in FsOutcomes :
       IF fs = "ok"
       THEN /\ out' = File(CsvReport(result))
            /\ log' = Append(log, Info("Processed CSV file"))
            /\ pc' = "done"
       ELSE /\ pc' = "raised"
            /\ UNCHANGED <<out, log>>
  /\ UNCHANGED <<script, inp, st, result>>

NextCsv == CsvOpen \/ CsvReadRow \/ CsvRank \/ CsvWrite

SpecCsv == InitCsv /\ [][NextCsv]_vars

-----------------------------------------------------------------------------
(***************************************************************************)
(* process_text.py                                                         *)
(***************************************************************************)
MaxLines == 3

MaxTopN == 2

\* The lines a text file is made of, each without its line end.
TextLines ==
  { <<>>,
    <<"a">>,
    <<"A", "-", "b">>,
    <<"b", "a", " ", "a", "1">> }

RECURSIVE SeqsUpTo(_, _)
SeqsUpTo(S, n) ==
  IF n = 0 THEN {<<>>}
  ELSE LET shorter == SeqsUpTo(S, n - 1)
       IN  shorter \cup {Append(q, x) : q \in {t \in shorter : Len(t) = n - 1}, x \in S}

TextFiles == SeqsUpTo(TextLines, MaxLines)

\* file.readlines(): every line keeps its line end
ReadLines(file) == [i \in 1..Len(file) |-> Append(file[i], "\n")]

\* the slice with stop_line itself included
SliceThroughStop(lines, a, b) == SubSeq(lines, a + 1, Min(b + 1, Len(lines)))

\* lines[a:b] for a, b >= 0
Slice(lines, a, b) == SubSeq(lines, a + 1, Min(b, Len(lines)))

\* " ".join(lines)
RECURSIVE Join(_)
Join(lines) ==
  IF lines = <<>> THEN <<>>
  ELSE IF Len(lines) = 1 THEN lines[1]
  ELSE Join(Front(lines)) \o <<" ">> \o Last(lines)

\* str.lower()
LowerChar(c) == IF c = "A" THEN "a" ELSE IF c = "B" THEN "b" ELSE c

Lower(content) == [i \in 1..Len(content) |-> LowerChar(content[i])]

\* [a-zA-Z]
IsLetter(c) == c \in {"a", "b", "A", "B"}

\* \w
IsWordChar(c) == IsLetter(c) \/ c \in {"1", "_"}

\* the end of the longest run of letters that starts at i
RunEnd(s, i) ==
  CHOOSE j \in i..Len(s) :
    /\ \A k \in i..j : IsLetter(s[k])
    /\ j = Len(s) \/ ~IsLetter(s[j + 1])

\* re.findall(r'\b[a-zA-Z]+\b', s) from position i on: a match starts at a
\* letter behind a non-word character and takes the whole run of letters; the
\* closing \b fails when a digit or "_" follows, and no shorter match ends at
\* a word boundary
RECURSIVE FindAllFrom(_, _)
FindAllFrom(s, i) ==
  IF i > Len(s) THEN <<>>
  ELSE IF IsLetter(s[i]) /\ (i = 1 \/ ~IsWordChar(s[i - 1]))
  THEN LET j == RunEnd(s, i)
       IN  IF j = Len(s) \/ ~IsWordChar(s[j + 1])
           THEN <<SubSeq(s, i, j)>> \o FindAllFrom(s, j + 1)
           ELSE FindAllFrom(s, i + 1)
  ELSE FindAllFrom(s, i + 1)

FindAll(s) == FindAllFrom(s, 1)

\* Counter.update(words)
RECURSIVE CounterUpdate(_, _)
CounterUpdate(c, words) ==
  IF words = <<>> THEN c
  ELSE CounterUpdate(CounterIncr(c, words[1]), Tail(words))

\* lines 53-59
WordCounts(lines, skip_lines, stop_line) ==
  LET content == Join(Slice(lines, skip_lines, stop_line))
      words == FindAll(Lower(content))
  IN  CounterUpdate(<<>>, words)

TextReport(top_words) ==
  <<"Top 50 Most Frequent Words (Lines 128-666):", "=50", "Word Count", "=50">>
  \o top_words

InitText ==
  /\ script = "text"
  /\ pc = "start"
  /\ inp = Unset
  /\ st = Unset
  /\ result = Unset
  /\ log = <<>>
  /\ out = Absent

\* count_top_words, lines 42-65: what it returns, logs and counted
count_top_words(exists, file, top_n, skip_lines, stop_line) ==
  LET lines == ReadLines(file)
      word_counts == WordCounts(lines, skip_lines, stop_line)
  IN  IF ~exists
      THEN [result |-> <<>>, word_counts |-> <<>>,
            log |-> <<Err("Error processing text file")>>]
      ELSE IF Len(lines) < skip_lines
      THEN [result |-> <<>>, word_counts |-> <<>>,
            log |-> <<Err("File has fewer than skip_lines lines")>>]
      ELSE [result |-> MostCommon(word_counts, top_n), word_counts |-> word_counts,
            log |-> <<>>]

\* process_text_file, line 73, with the call's arguments drawn
TextCount ==
  /\ script = "text" /\ pc = "start"
  /\ \E exists \in BOOLEAN, file \in TextFiles, top_n \in 0..MaxTopN,
        skip_lines \in 0..(MaxLines + 1), stop_line \in 0..(MaxLines + 1) :
       LET ret == count_top_words(exists, file, top_n, skip_lines, stop_line)
       IN  /\ exists \/ file = <<>>
           /\ inp' = [exists |-> exists, file |-> file, top_n |-> top_n,
                      skip_lines |-> skip_lines, stop_line |-> stop_line]
           /\ st' = [word_counts |-> ret.word_counts]
           /\ result' = ret.result
           /\ log' = log \o ret.log
  /\ pc' = "returned"
  /\ UNCHANGED <<script, out>>

\* process_text_file, lines 75-88: mkdir(parents, exist_ok), then the report
TextWrite ==
  /\ script = "text" /\ pc = "returned"
  /\ \E fs \in FsOutcomes :
       IF fs \in {"ok", "nofolder"}
       THEN /\ out' = File(TextReport(result))
            /\ log' = Append(log, Info("Processed text file"))
            /\ pc' = "done"
       ELSE /\ pc' = "raised"
            /\ UNCHANGED <<out, log>>
  /\ UNCHANGED <<script, inp, st, result>>

NextText == TextCount \/ TextWrite

SpecText == InitText /\ [][NextText]_vars

-----------------------------------------------------------------------------
(***************************************************************************)
(* process_excel.py                                                        *)
(***************************************************************************)
MaxXlRows == 3

\* Row 1 of the active sheet: the column order is the file's own.
XlHeaders ==
  { <<"NSN", "rep_office", "common_name", "Price">>,
    <<"Price", "common_name", "rep_office", "NSN">>,
    <<"NSN", "rep_office", "common_name">> }

required_columns == {"NSN", "rep_office", "common_name", "Price"}

Num(v) == [numeric |-> TRUE, value |-> v]

NotNum == [numeric |-> FALSE, value |-> 0]

XlRec(office, nsn, name, price) ==
  [rep_office |-> office, NSN |-> nsn, common_name |-> name, Price |-> price]

\* The data rows of a sheet, by column name: complete rows, and rows with one
\* cell empty (None or "") or a Price that is text.
XlRecs ==
  { XlRec("A", n, "bolt", Num(p)) : n \in {"n1", "n2"}, p \in {1, 2} }
  \cup { XlRec("B", "n1", "bolt", Num(p)) : p \in {1, 2} }
  \cup { XlRec("", "n2", "bolt", Num(2)),
         XlRec("A", None, "bolt", Num(2)),
         XlRec("A", "n2", None, Num(2)),
         XlRec("A", "n2", "bolt", NotNum) }

\* the row as iter_rows(values_only=True) yields it: cells in column order
XlTuple(headers, rec) == [i \in 1..Len(headers) |-> rec[headers[i]]]

\* headers.index(name) + 1
XlIndex(headers, name) == (CHOOSE i \in 1..Len(headers) : headers[i] = name)

\* bool(v) of a text cell
Truthy(v) == v \notin {None, ""}

\* isinstance(price, (int, float))
IsInstanceNumber(price) == price.numeric

\* line 66
XlRowValid(rep_office, nsn, common_name, price) ==
  Truthy(rep_office) /\ Truthy(nsn) /\ Truthy(common_name) /\ IsInstanceNumber(price)

\* line 67 with >= for >
XlReplacesOnTie(highest, rep_office, price) ==
  rep_office \notin Keys(highest) \/ price.value >= Get(highest, rep_office)[3]

\* line 67
XlReplaces(highest, rep_office, price) ==
  rep_office \notin Keys(highest) \/ price.value > Get(highest, rep_office)[3]

\* d[k] = v as delete-and-insert: a replaced key moves last
DictSetMovesLast(d, k, v) ==
  IF k \in Keys(d) THEN Append(RemoveAt(d, Pos(d, k)), <<k, v>>) ELSE Append(d, <<k, v>>)

\* d[k] = v : an existing key keeps its place, a new key goes last
DictSet(d, k, v) ==
  IF k \in Keys(d) THEN [d EXCEPT ![Pos(d, k)][2] = v] ELSE Append(d, <<k, v>>)

\* lines 60-68 for one row
XlUpdate(highest, idx, row) ==
  LET rep_office == row[idx.rep_office]
      nsn == row[idx.nsn]
      common_name == row[idx.common_name]
      price == row[idx.price]
  IN  IF XlRowValid(rep_office, nsn, common_name, price)
         /\ XlReplaces(highest, rep_office, price)
      THEN DictSet(highest, rep_office, <<nsn, common_name, price.value>>)
      ELSE highest

\* lines 91-92: dict.items(), in insertion order; ':.2f' of a whole price
XlReport(highest_prices) ==
  <<"Highest Price NSN per rep_office:", "=80", "Rep Office NSN Common Name Price", "=80">>
  \o [i \in 1..Len(highest_prices) |->
        <<highest_prices[i][1], highest_prices[i][2][1], highest_prices[i][2][2],
          highest_prices[i][2][3] * 100>>]

InitXl ==
  /\ script = "excel"
  /\ pc = "start"
  /\ inp = Unset
  /\ st = Unset
  /\ result = Unset
  /\ log = <<>>
  /\ out = Absent

\* lines 41-57: load the workbook, read row 1, check and index the columns
XlLoad ==
  /\ script = "excel" /\ pc = "start"
  /\ \E exists \in BOOLEAN, headers \in XlHeaders :
       /\ inp' = [exists |-> exists, headers |-> IF exists THEN headers ELSE <<>>,
                  rows |-> <<>>]
       /\ IF ~exists
          THEN /\ log' = Append(log, Err("Error processing Excel file"))
               /\ result' = <<>>
               /\ pc' = "returned"
               /\ st' = [rep_office_highest |-> <<>>]
          ELSE IF ~(required_columns \subseteq Range(headers))
          THEN /\ log' = Append(log, Err("Missing required columns in Excel file"))
               /\ result' = <<>>
               /\ pc' = "returned"
               /\ st' = [rep_office_highest |-> <<>>]
          ELSE /\ pc' = "rows"
               /\ st' = [rep_office_highest |-> <<>>,
                         idx |-> [nsn |-> XlIndex(headers, "NSN"),
                                  rep_office |-> XlIndex(headers, "rep_office"),
                                  common_name |-> XlIndex(headers, "common_name"),
                                  price |-> XlIndex(headers, "Price")]]
               /\ UNCHANGED <<result, log>>
  /\ UNCHANGED <<script, out>>

\* lines 59-68, one iteration; inp.rows keeps the rows read, by column name
XlReadRow ==
  /\ script = "excel" /\ pc = "rows"
  /\ Len(inp.rows) < MaxXlRows
  /\ \E rec \in XlRecs :
       /\ inp' = [inp EXCEPT !.rows = Append(@, rec)]
       /\ st' = [st EXCEPT !.rep_office_highest =
                              XlUpdate(@, st.idx, XlTuple(inp.headers, rec))]
  /\ UNCHANGED <<script, pc, result, log, out>>

\* line 70
XlReturn ==
  /\ script = "excel" /\ pc = "rows"
  /\ result' = st.rep_office_highest
  /\ pc' = "returned"
  /\ UNCHANGED <<script, inp, st, log, out>>

\* lines 85-94: no mkdir, no try
XlWrite ==
  /\ script = "excel" /\ pc = "returned"
  /\ \E fs \in FsOutcomes :
       IF fs = "ok"
       THEN /\ out' = File(XlReport(result))
            /\ log' = Append(log, Info("Processed Excel file"))
            /\ pc' = "done"
       ELSE /\ pc' = "raised"
            /\ UNCHANGED <<out, log>>
  /\ UNCHANGED <<script, inp, st, result>>

NextXl == XlLoad \/ XlReadRow \/ XlReturn \/ XlWrite

SpecXl == InitXl /\ [][NextXl]_vars

-----------------------------------------------------------------------------
(***************************************************************************)
(* process_json.py                                                         *)
(***************************************************************************)
MaxJsonRows == 2

MaxFill == 10

JsonTop == 10

\* State names in ascending (string) order: Rank is the order pandas sorts by.
Alphabet ==
  <<"AK", "AL", "AR", "AZ", "CA", "CO", "CT", "DE", "FL", "GA", "HI", "IA", "ID", "IL">>

Rank(name) == CHOOSE i \in 1..Len(Alphabet) : Alphabet[i] = name

\* A cell of "data": text that is a number ("12"), or other text
JNum(v) == [parses |-> TRUE, value |-> v]

JText == [parses |-> FALSE, value |-> 0]

JsonRow(state, total, scd) == [State |-> state, Total |-> total, SCD |-> scd]

\* The rows a document varies in: State "AK", "AL" or null, a Total that is a
\* number or text.
JsonRows ==
  { JsonRow(state, total, JNum(1)) :
      state \in {"AK", "AL", None}, total \in {JNum(1), JNum(2), JText} }

\* Further rows, one per further State, each with a Total above every sum of
\* the rows before them and no two alike.
FillRows(n) == [i \in 1..n |-> JsonRow(Alphabet[2 + i], JNum(20 - i), JNum(1))]

JsonDocs == {"missing", "malformed", "arity", "nocolumn", "ok"}

\* pd.to_numeric(column, errors='coerce') of one cell: NaN for other text
ToNumeric(cell) == IF cell.parses THEN Num(cell.value) ELSE NotNum

\* the sum of a group's cells, NaN skipped
RECURSIVE SumColumn(_, _, _)
SumColumn(rows, state, col) ==
  IF rows = <<>> THEN 0
  ELSE LET cell == ToNumeric(Last(rows)[col])
       IN  SumColumn(Front(rows), state, col)
           + (IF Last(rows).State = state /\ cell.numeric THEN cell.value ELSE 0)

\* the elements of a set of State names as a sequence in ascending order
SortedNames(S) ==
  [i \in 1..Cardinality(S) |->
     CHOOSE k \in S : Cardinality({j \in S : Rank(j) < Rank(k)}) = i - 1]

\* lines 46-48: df.groupby("State")[...].sum(): one row per State, null State
\* dropped, the groups in ascending State order
GroupBySum(rows) ==
  LET names == SortedNames({rows[i].State : i \in 1..Len(rows)} \ {None})
  IN  [i \in 1..Len(names) |->
         <<names[i], SumColumn(rows, names[i], "Total"), SumColumn(rows, names[i], "SCD")>>]

\* every order of a descending sequence that differs only among equal values
RECURSIVE TieOrders(_)
TieOrders(s) ==
  IF s = <<>> THEN {<<>>}
  ELSE UNION { { <<s[i]>> \o t : t \in TieOrders(RemoveAt(s, i)) } :
                 i \in {j \in 1..Len(s) : s[j][2] = s[1][2]} }

\* line 51: DataFrame.nlargest(n, column), keep='first'.  With more than n
\* rows pandas takes the rows >= the n-th largest value and orders them with
\* a stable sort, so ties stay in frame order and the first are kept; with at
\* most n rows it is sort_values(ascending=False), whose default sort is not
\* stable: any order of the tied rows can come out.
NLargest(frame, n) ==
  IF n >= Len(frame) THEN TieOrders(SortedDesc(frame))
  ELSE {SubSeq(SortedDesc(frame), 1, n)}

\* lines 54-56 and the ':.2f' of line 82; x/0 is inf or nan in pandas
JsonPercent(scd, total) ==
  IF total = 0 THEN (IF scd = 0 THEN "nan" ELSE "inf")
  ELSE Format2f(Percent(scd, total))

JsonReport(top_10_states) ==
  <<"Top 10 States with Most Disability Compensation Recipients:", "=60",
    "State Total Recipients SCD 100% Percentage", "=60">>
  \o [i \in 1..Len(top_10_states) |->
        <<top_10_states[i][1], top_10_states[i][2],
          JsonPercent(top_10_states[i][3], top_10_states[i][2])>>]

ReturnedNone == [is_none |-> TRUE, frame |-> <<>>]

Returned(frame) == [is_none |-> FALSE, frame |-> frame]

InitJson ==
  /\ script = "json"
  /\ pc = "start"
  /\ inp = Unset
  /\ st = Unset
  /\ result = Unset
  /\ log = <<>>
  /\ out = Absent

\* get_top_10_states, lines 30-61.  Any exception gives None: the file is
\* missing, is not JSON or lacks "data"/"meta", the column names do not match
\* the width of the rows (an empty "data" included), a column is absent.
JsonTop10 ==
  /\ script = "json" /\ pc = "start"
  /\ \E doc \in JsonDocs, rows \in SeqsUpTo(JsonRows, MaxJsonRows), fill \in 0..MaxFill :
       LET data == rows \o FillRows(fill)
       IN  /\ doc # "ok" => rows = <<>> /\ fill = 0
           /\ inp' = [doc |-> doc, data |-> data]
           /\ IF doc # "ok" \/ data = <<>>
              THEN /\ log' = Append(log, Err("Error processing JSON file"))
                   /\ st' = [state_totals |-> <<>>]
                   /\ result' = ReturnedNone
              ELSE /\ st' = [state_totals |-> GroupBySum(data)]
                   /\ \E top \in NLargest(st'.state_totals, JsonTop) :
                        result' = Returned(top)
                   /\ log' = log
  /\ pc' = "returned"
  /\ UNCHANGED <<script, out>>

\* process_json_file, lines 69-84
JsonWrite ==
  /\ script = "json" /\ pc = "returned"
  /\ IF result.is_none
     THEN /\ log' = Append(log, Err("No valid data found to process."))
          /\ pc' = "done"
          /\ out' = out
     ELSE \E fs \in FsOutcomes :
            IF fs \in {"ok", "nofolder"}
            THEN /\ out' = File(JsonReport(result.frame))
                 /\ log' = Append(log, Info("Processed JSON file"))
                 /\ pc' = "done"
            ELSE /\ pc' = "raised"
                 /\ UNCHANGED <<out, log>>
  /\ UNCHANGED <<script, inp, st, result>>

NextJson == JsonTop10 \/ JsonWrite

SpecJson == InitJson /\ [][NextJson]_vars

-----------------------------------------------------------------------------
(***************************************************************************)
(* get_excel.py                                                            *)
(***************************************************************************)
Urls == {<<>>, <<"https://inventory.data.gov/nsn.xlsx">>}

\* a file name as its stem and extensions
Filenames == {<<"national_stock_number_2023">>, <<"national_stock_number_2023", ".xlsx">>}

Contents == {<<>>, <<"PK">>}

HttpOutcomes == {"ok", "http_error", "request_error"}

\* lines 57-58
WithXlsx(filename) ==
  IF Last(filename) # ".xlsx" THEN Append(filename, ".xlsx") ELSE filename

InitFetch ==
  /\ script = "fetch"
  /\ pc = "start"
  /\ inp = Unset
  /\ st = Unset
  /\ result = Unset
  /\ log = <<>>
  /\ out = Absent

\* fetch_excel_file, lines 47-49
FetchCheckUrl ==
  /\ script = "fetch" /\ pc = "start"
  /\ \E url \in Urls, filename \in Filenames :
       /\ inp' = [url |-> url, filename |-> filename]
       /\ IF url = <<>>
          THEN /\ log' = Append(log, Err("The URL provided is empty."))
               /\ pc' = "done"
          ELSE /\ log' = Append(log, Info("Fetching Excel data"))
               /\ pc' = "get"
  /\ UNCHANGED <<script, st, result, out>>

\* lines 53-58 and 63-66: requests.get, raise_for_status, the extension
FetchGet ==
  /\ script = "fetch" /\ pc = "get"
  /\ \E http \in HttpOutcomes, content \in Contents :
       IF http = "ok"
       THEN /\ st' = [filename |-> WithXlsx(inp.filename), content |-> content]
            /\ pc' = "write"
            /\ log' = log
       ELSE /\ log' = Append(log, Err(IF http = "http_error"
                                        THEN "HTTP error occurred"
                                        ELSE "Request error occurred"))
            /\ pc' = "done"
            /\ st' = st
  /\ UNCHANGED <<script, inp, result, out>>

\* write_excel_file, lines 80-88: IOError is caught here and not raised again
WriteExcelFile ==
  /\ script = "fetch" /\ pc = "write"
  /\ \E fs \in FsOutcomes :
       IF fs \in {"ok", "nofolder"}
       THEN /\ out' = File([name |-> st.filename, bytes |-> st.content])
            /\ log' = log \o <<Info("Writing Excel data"), Info("SUCCESS: Excel data written")>>
       ELSE /\ out' = out
            /\ log' = log \o <<Info("Writing Excel data"), Err("Error writing Excel data")>>
  /\ pc' = "written"
  /\ UNCHANGED <<script, inp, st, result>>

\* line 61
FetchSuccess ==
  /\ script = "fetch" /\ pc = "written"
  /\ log' = Append(log, Info("SUCCESS: Excel file fetched and saved"))
  /\ pc' = "done"
  /\ UNCHANGED <<script, inp, st, result, out>>

NextFetch == FetchCheckUrl \/ FetchGet \/ WriteExcelFile \/ FetchSuccess

-----------------------------------------------------------------------------
Init == InitCsv \/ InitXl \/ InitJson \/ InitText \/ InitFetch

Next == NextCsv \/ NextXl \/ NextJson \/ NextText \/ NextFetch

Spec == Init /\ [][Next]_vars

-----------------------------------------------------------------------------
(***************************************************************************)
(* The claims.                                                             *)
(***************************************************************************)
HasReturned == pc \in {"returned", "done", "raised"}

Logged(entry) == entry \in Range(log)

ErrorLogged == \E i \in 1..Len(log) : log[i].level = "error"

Emitted(r) == {r[i][1] : i \in 1..Len(r)}

\* r is a top-n selection of the counter c
TopNSelected(c, r, n) ==
  /\ \A i \in 1..Len(r) : r[i][1] \in Keys(c) /\ r[i][2] = Get(c, r[i][1])
  /\ \A i, j \in 1..Len(r) : i # j => r[i][1] # r[j][1]
  /\ \A i \in 1..Len(r) : \A k \in Keys(c) \ Emitted(r) : r[i][2] >= Get(c, k)
  /\ \A i \in 1..(Len(r) - 1) : r[i][2] >= r[i + 1][2]
  /\ Len(r) = Min(n, Len(c))

\* C1: in the CSV and the text pipeline the returned list is a top-N selection
\* of the keys aggregated: every emitted count >= every count left out, the
\* list non-increasing, its length min(N, number of distinct keys).
C1_TopNSelection ==
  /\ script = "csv" /\ HasReturned => TopNSelected(st.state_counts, result, TopStates)
  /\ script = "text" /\ HasReturned => TopNSelected(st.word_counts, result, inp.top_n)

\* C2: every entry get_top_10_states (CSV) emits carries 100 * count / total,
\* total being the sum of the counts of all states aggregated; TX, TX, CA gives
\* (TX, 2, 66.67%), (CA, 1, 33.33%); with more than 10 states the emitted
\* percentages sum to less than 100.
C2_PercentOfAll ==
  script = "csv" /\ HasReturned =>
    LET c == st.state_counts
        total == SumValues(c)
    IN  /\ \A i \in 1..Len(result) :
             /\ result[i][1] \in Keys(c)
             /\ result[i][2] = Get(c, result[i][1])
             /\ result[i][3].den > 0
             /\ result[i][3].num * total = 100 * result[i][2] * result[i][3].den
        /\ c = << <<"TX", 2>>, <<"CA", 1>> >> /\ ~ErrorLogged =>
             /\ Len(result) = 2
             /\ result[1][1] = "TX" /\ result[1][2] = 2
             /\ result[2][1] = "CA" /\ result[2][2] = 1
             /\ pc = "done" => SubSeq(out.content, 5, Len(out.content)) = << <<"TX", 2, 6667>>, <<"CA", 1, 3333>> >>
        /\ Len(c) > TopStates /\ result # <<>> => SumValues(result) < total
        /\ pc = "done" =>
             \A i \in 1..Len(result) :
               LET shown == out.content[4 + i][3]
                   d == shown * total - 10000 * result[i][2]
               IN  2 * d <= total /\ -2 * d <= total

C2_MoreThanTen ==
  /\ script = "csv" /\ pc = "done"
  /\ Len(st.state_counts) > TopStates
  /\ Len(result) = TopStates

\* r lists tied keys of the counter c in the order c first met them, and where
\* a tie crosses the cut the key met first is the one emitted
FirstSeenTies(c, r) ==
  /\ \A i, j \in 1..Len(r) :
       i < j /\ r[i][2] = r[j][2] => Pos(c, r[i][1]) < Pos(c, r[j][1])
  /\ \A i \in 1..Len(r) : \A k \in Keys(c) \ Emitted(r) :
       r[i][2] = Get(c, k) => Pos(c, r[i][1]) < Pos(c, k)

\* where the State first occurs in the rows of the JSON document
FirstRow(data, state) ==
  CHOOSE i \in 1..Len(data) :
    data[i].State = state /\ \A j \in 1..(i - 1) : data[j].State # state

RECURSIVE WordsInRange(_, _, _, _)
WordsInRange(file, i, skip_lines, stop_line) ==
  IF i >= Len(file) THEN <<>>
  ELSE (IF skip_lines <= i /\ i < stop_line
        THEN FindAll(Lower(Append(file[i + 1], "\n"))) ELSE <<>>)
       \o WordsInRange(file, i + 1, skip_lines, stop_line)

\* C9: count_top_words counts the words of the lines i, skip_lines <= i <
\* stop_line, and no others; changing a line outside that range changes nothing;
\* every counted word is lowercase letters; a file shorter than skip_lines is an
\* error and []; a file of exactly skip_lines lines, or stop_line <= skip_lines,
\* gives [].
C9_LineRange ==
  script = "text" /\ HasReturned /\ inp.exists =>
    LET n == Len(inp.file)
        outside == {i \in 0..(n - 1) : ~(inp.skip_lines <= i /\ i < inp.stop_line)}
    IN  /\ n >= inp.skip_lines =>
              /\ st.word_counts =
                   CounterUpdate(<<>>, WordsInRange(inp.file, 0, inp.skip_lines, inp.stop_line))
              /\ TopNSelected(st.word_counts, result, inp.top_n)
        /\ \A i \in outside : \A line \in TextLines :
              count_top_words(TRUE, [inp.file EXCEPT ![i + 1] = line], inp.top_n,
                              inp.skip_lines, inp.stop_line).result = result
        /\ \A w \in Keys(st.word_counts) :
              w # <<>> /\ \A k \in 1..Len(w) : w[k] \in {"a", "b"}
        /\ n < inp.skip_lines =>
              result = <<>> /\ Logged(Err("File has fewer than skip_lines lines"))
        /\ n = inp.skip_lines \/ inp.stop_line <= inp.skip_lines => result = <<>>

\* a run that counts the middle line of three, all three holding words
C9_MiddleLineOnly ==
  /\ script = "text" /\ pc = "done" /\ inp.exists
  /\ inp.skip_lines = 1 /\ inp.stop_line = 2 /\ Len(inp.file) = 3
  /\ \A i \in 1..3 : FindAll(Lower(inp.file[i])) # <<>>
  /\ result # <<>>

\* the well-formed rows of a sheet: every cell there, a numeric Price
XlWellFormed(rec) ==
  /\ rec.rep_office \notin {None, ""}
  /\ rec.NSN \notin {None, ""}
  /\ rec.common_name \notin {None, ""}
  /\ rec.Price.numeric

RECURSIVE XlRun(_, _, _)
XlRun(headers, idx, recs) ==
  IF recs = <<>> THEN <<>>
  ELSE XlUpdate(XlRun(headers, idx, Front(recs)), idx, XlTuple(headers, Last(recs)))

RECURSIVE WellFormedRows(_)
WellFormedRows(recs) ==
  IF recs = <<>> THEN <<>>
  ELSE IF XlWellFormed(recs[1]) THEN <<recs[1]>> \o WellFormedRows(Tail(recs))
  ELSE WellFormedRows(Tail(recs))

\* C6 (as claimed): a malformed row is skipped by itself; the result is that of
\* the run over the same rows without the malformed ones (CSV and spreadsheet).
C6_MalformedRowsSkipped ==
  /\ script = "csv" /\ HasReturned =>
       result = IF st.clean = <<>> THEN <<>> ELSE CsvEntries(st.clean)
  /\ script = "excel" /\ HasReturned /\ "idx" \in DOMAIN st =>
       result = XlRun(inp.headers, st.idx, WellFormedRows(inp.rows))

\* C7: find_highest_price_nsn holds an entry for exactly the rep_office values
\* of the valid rows read, each entry the (NSN, common_name, Price) of the first
\* valid row of that office that reaches the office's highest Price.
C7_HighestPerOffice ==
  script = "excel" /\ pc # "start" =>
    LET rows == inp.rows
        h == st.rep_office_highest
        valid(o) == {i \in 1..Len(rows) : XlWellFormed(rows[i]) /\ rows[i].rep_office = o}
    IN  /\ Keys(h) = {rows[i].rep_office : i \in {j \in 1..Len(rows) : XlWellFormed(rows[j])}}
        /\ \A o \in Keys(h) :
             LET best == CHOOSE i \in valid(o) :
                           /\ \A j \in valid(o) : rows[j].Price.value <= rows[i].Price.value
                           /\ \A j \in valid(o) :
                                j < i => rows[j].Price.value < rows[i].Price.value
             IN  Get(h, o) = <<rows[best].NSN, rows[best].common_name, rows[best].Price.value>>
        /\ HasReturned => result = h

\* two valid rows of one office share its highest Price and differ in NSN
C7_TwoRowsAtTheMaximum ==
  /\ script = "excel" /\ pc = "returned"
  /\ \E i, j \in 1..Len(inp.rows) :
       /\ i < j
       /\ XlWellFormed(inp.rows[i]) /\ XlWellFormed(inp.rows[j])
       /\ inp.rows[i].rep_office = inp.rows[j].rep_office
       /\ inp.rows[i].Price = inp.rows[j].Price
       /\ inp.rows[i].NSN # inp.rows[j].NSN
       /\ \A k \in 1..Len(inp.rows) :
            XlWellFormed(inp.rows[k]) => inp.rows[k].Price.value <= inp.rows[i].Price.value

ReportLines == SubSeq(out.content, 5, Len(out.content))

\* ascending order of the rep_office values
OfficeRank(o) == CHOOSE i \in 1..2 : <<"A", "B">>[i] = o

FirstValidRow(o) ==
  CHOOSE i \in 1..Len(inp.rows) :
    /\ XlWellFormed(inp.rows[i]) /\ inp.rows[i].rep_office = o
    /\ \A j \in 1..(i - 1) : ~(XlWellFormed(inp.rows[j]) /\ inp.rows[j].rep_office = o)

OneLinePerOffice ==
  /\ Len(ReportLines) = Len(result)
  /\ \A o \in Keys(result) : \E i \in 1..Len(ReportLines) :
       ReportLines[i] = <<o, Get(result, o)[1], Get(result, o)[2], Get(result, o)[3] * 100>>

\* C8 (as claimed): the spreadsheet report has one line per rep_office, no
\* cutoff, the lines sorted by rep_office whatever the order in the input.
C8_SortedByOffice ==
  script = "excel" /\ pc = "done" =>
    /\ OneLinePerOffice
    /\ \A i, j \in 1..Len(ReportLines) :
         i < j => OfficeRank(ReportLines[i][1]) < OfficeRank(ReportLines[j][1])

\* C8 (amended): one line per rep_office, no cutoff, the lines in the order in
\* which the offices first appear in a valid row of the input.
C8_InFirstSeenOrder ==
  script = "excel" /\ pc = "done" =>
    /\ OneLinePerOffice
    /\ \A i, j \in 1..Len(ReportLines) :
         i < j => FirstValidRow(ReportLines[i][1]) < FirstValidRow(ReportLines[j][1])

\* a report that lists B before A, B's entry having been replaced after A came
C8_LaterOfficeFirst ==
  /\ script = "excel" /\ pc = "done"
  /\ Len(ReportLines) = 2
  /\ ReportLines[1][1] = "B" /\ ReportLines[2][1] = "A"
  /\ \E i \in 1..Len(inp.rows) :
       /\ i > FirstValidRow("A")
       /\ XlWellFormed(inp.rows[i]) /\ inp.rows[i].rep_office = "B"
       /\ inp.rows[i].Price.value = ReportLines[1][4] \div 100
       /\ inp.rows[FirstValidRow("B")].Price.value < inp.rows[i].Price.value

Pipelines == {"csv", "excel", "json", "text"}

Finished == pc \in {"done", "raised"}

\* schema validation failed: a required column is absent from the headers
SchemaFailed ==
  \/ script = "csv" /\ inp.exists /\ inp.fieldnames # <<>>
       /\ StateCol \notin Range(inp.fieldnames)
  \/ script = "excel" /\ inp.exists /\ ~(required_columns \subseteq Range(inp.headers))
  \/ script = "json" /\ inp.doc = "nocolumn"

Sentinel == IF script = "json" THEN result.is_none ELSE result = <<>>

\* C5 (as claimed): no exception leaves a pipeline entry point, and a function
\* that returns its sentinel has logged an error.
C5_NoExceptionRaised ==
  script \in Pipelines =>
    /\ pc # "raised"
    /\ HasReturned /\ Sentinel => ErrorLogged

\* C10 (as claimed): "SUCCESS: Excel file fetched and saved" is logged only
\* after the request succeeded and the bytes were written; an empty URL, a
\* failed request and a failed write leave no file and no such line.
C10_SuccessMeansSaved ==
  script = "fetch" =>
    /\ Logged(Info("SUCCESS: Excel file fetched and saved")) =>
         out.written /\ ~Logged(Err("Error writing Excel data"))
    /\ pc # "start" /\ inp.url = <<>> => ~out.written /\ pc = "done"
    /\ ErrorLogged /\ pc = "done" =>
         ~Logged(Info("SUCCESS: Excel file fetched and saved"))

=============================================================================
